---------------------------- MODULE Spec2Model ----------------------------
(***************************************************************************)
(* In-place update feasibility check of the KubeadmControlPlane controller *)
(* (controlplane/kubeadm/internal/controllers/inplace_canupdatemachine.go). *)
(*                                                                         *)
(* One evaluation is modelled: either a call of canUpdateMachine (the      *)
(* gate) or a direct call of canExtensionsUpdateMachine (the orchestrator) *)
(* with an arbitrary handler list; or one direct call of the patch engine  *)
(* (applyPatchToObject, applyPatchToMachine).  Every external collaborator *)
(* call                                                                    *)
(* (GetAllExtensions, ssa.Patch dry-run, CallExtension, compare.Diff) is a *)
(* nondeterministic input.  A step of the model is the code between two    *)
(* extension calls.                                                        *)
(***************************************************************************)
EXTENDS Naturals, Sequences, FiniteSets, TLC

(***************************************************************************)
(* Bounds and value domains                                                *)
(***************************************************************************)
\* Largest number of registered / passed extension handlers.
MaxHandlers == 2

\* Values a spec subtree can take (abstract: two specs are deep-equal iff
\* they are the same value).
SpecVals == {"v1", "v2"}

\* Values of the labels (and of the annotations) of an object.
LabelVals == {"la", "lb"}

\* The names under which extension handlers are registered, in call order.
HandlerNames == <<"h1", "h2", "h3", "h4">>

MachineGVK == "cluster.x-k8s.io/v1beta2, Kind=Machine"
KubeadmConfigGVK == "bootstrap.cluster.x-k8s.io/v1beta2, Kind=KubeadmConfig"
InfraGVK == "infrastructure.cluster.x-k8s.io/v1beta2, Kind=DockerMachine"

\* A nil pointer of the UpToDateResult.
Nil == [nil |-> TRUE]

\* An object as the controller holds it: the fields the request keeps plus
\* the fields cleanup drops (status, resourceVersion, ...: "rest").
Obj(gvk, name, labels, spec) ==
    [gvk |-> gvk, name |-> name, namespace |-> "ns", labels |-> labels,
     annotations |-> labels, spec |-> spec, rest |-> "status+managedFields"]

(***************************************************************************)
(* Patches of a CanUpdateMachineResponse                                   *)
(***************************************************************************)
\* One operation of a decoded patch payload.  For a JSON patch (RFC 6902):
\* "replace" and "test" on an existing path, "remove" of a missing path.
\* For a JSON merge patch (RFC 7386) the overlay is the list of its keys.
Op(op, path, value) == [op |-> op, path |-> path, value |-> value]

\* A payload: its textual form and, for form "doc", the operations.
\*   "empty"   zero bytes
\*   "{}"      the empty object
\*   "[]"      the empty array
\*   "garbage" bytes that are not JSON
\*   "panic"   a payload on which the patch library panics
\*   "doc"     a well-formed, non-empty payload
Payload(form, ops) == [form |-> form, ops |-> ops]

Patch(type, form, ops) == [PatchType |-> type, Patch |-> Payload(form, ops)]

JSONPatchType == "JSONPatch"
JSONMergePatchType == "JSONMergePatch"

NoPatch == Patch("", "empty", <<>>)

SetSpec(type, v) == Patch(type, "doc", <<Op("replace", "spec", v)>>)
SetLabels(type, l) == Patch(type, "doc", <<Op("replace", "labels", l)>>)

\* The patches an extension answers with for one resource.
Patches ==
    {NoPatch}
    \cup {SetSpec(t, v) : t \in {JSONPatchType, JSONMergePatchType}, v \in SpecVals}
    \cup {SetLabels(t, "lx") : t \in {JSONPatchType, JSONMergePatchType}}
    \cup {Patch(t, "doc", <<Op("replace", "labels", "lx"), Op("replace", "spec", v)>>) :
            t \in {JSONPatchType, JSONMergePatchType}, v \in SpecVals}
    \cup {Patch(JSONPatchType, "doc", <<Op("test", "spec", "v1"), Op("replace", "spec", "v2")>>),
          Patch(JSONPatchType, "doc", <<Op("replace", "spec", "v2"), Op("remove", "nosuch", "")>>)}
    \cup {Patch(t, f, <<>>) : t \in {JSONPatchType, JSONMergePatchType},
                              f \in {"empty", "{}", "[]", "garbage", "panic"}}
    \cup {Patch("", "doc", <<Op("replace", "spec", "v1")>>),
          Patch("YAMLPatch", "empty", <<>>),
          Patch("YAMLPatch", "doc", <<Op("replace", "spec", "v1")>>)}


(***************************************************************************)
(* Request construction (createRequest and its helpers)                    *)
(***************************************************************************)
\* The error value of a call that returned no error.
NoErr == "nil"

\* cleanupMachine: a fresh Machine with the GVK set and only name, namespace,
\* labels, annotations and (a copy of) the spec kept.
cleanupMachine(machine) ==
    [gvk |-> MachineGVK, name |-> machine.name, namespace |-> machine.namespace,
     labels |-> machine.labels, annotations |-> machine.annotations,
     spec |-> machine.spec]

\* cleanupKubeadmConfig: as cleanupMachine, for the typed KubeadmConfig.
cleanupKubeadmConfig(kubeadmConfig) ==
    [gvk |-> KubeadmConfigGVK, name |-> kubeadmConfig.name,
     namespace |-> kubeadmConfig.namespace, labels |-> kubeadmConfig.labels,
     annotations |-> kubeadmConfig.annotations, spec |-> kubeadmConfig.spec]

\* cleanupUnstructured: apiVersion, kind and spec of u, then name, namespace,
\* labels and annotations set from u.
cleanupUnstructured(u) ==
    [gvk |-> u.gvk, name |-> u.name, namespace |-> u.namespace,
     labels |-> u.labels, annotations |-> u.annotations, spec |-> u.spec]

\* Mutant: the error of json.Marshal is dropped.
convertToRawExtension_NoError(object, marshalFails) ==
    [err |-> NoErr, ext |-> [Raw |-> object, Object |-> object]]

\* convertToRawExtension: the object marshalled to JSON (Raw) together with
\* its Unstructured form (Object); fails when marshalling fails.
convertToRawExtension(object, marshalFails) ==
    IF marshalFails
    THEN [err |-> "failed to marshal object to JSON", ext |-> [Raw |-> Nil, Object |-> Nil]]
    ELSE [err |-> NoErr, ext |-> [Raw |-> object, Object |-> object]]

\* Mutant: the labels and annotations of current are left as they are.
syncLabelsAndAnnotations_None(current, desired) == current

\* SetLabels / SetAnnotations of desired on current (createRequest, sync of the
\* in-place mutable fields).
syncLabelsAndAnnotations(current, desired) ==
    [current EXCEPT !.labels = desired.labels, !.annotations = desired.annotations]

\* ssa.Patch with WithDryRun: the object as the API server would store it.
\* The abstract spec value of an object stands for its spec after defaulting,
\* so the object's modelled fields are unchanged; the server fills the rest.
ssaPatchDryRun(obj) == [obj EXCEPT !.rest = "status+managedFields+defaulted"]

\* internal.PrepareKubeadmConfigsForDiff(desired, current, true): gives back
\* the pair <<desired, current>> prepared for comparison.
PrepareKubeadmConfigsForDiff(desired, current) == <<desired, current>>

\* The steps of createRequest that can fail, in the order the code takes them.
CreateFaults ==
    <<"ssaDesiredMachine", "ssaCurrentInfraMachine", "ssaDesiredInfraMachine",
      "convCurrentBootstrapConfig", "convDesiredBootstrapConfig",
      "convCurrentInfrastructureMachine", "convDesiredInfrastructureMachine">>

CreateFaultSet == {CreateFaults[k] : k \in 1..Len(CreateFaults)} \cup {"none"}

\* Number of ssa.Patch dry-run calls createRequest makes before it returns,
\* given the step that fails.
dryRunCalls(fault) ==
    CASE fault = "ssaDesiredMachine" -> 1
      [] fault = "ssaCurrentInfraMachine" -> 2
      [] OTHER -> 3

NoReq == [Current |-> Nil, Desired |-> Nil]

\* createRequest: deep copies, label/annotation sync, dry-runs, diff
\* preparation, cleanup and conversion.  [err, req].
createRequest(currentMachine, machineUpToDateResult, fault) ==
    LET currentMachineForDiff == currentMachine
        desiredKubeadmConfigCopy == machineUpToDateResult.DesiredKubeadmConfig
        desiredInfraMachineCopy == machineUpToDateResult.DesiredInfraMachine
        currentKubeadmConfigSynced ==
            syncLabelsAndAnnotations(machineUpToDateResult.CurrentKubeadmConfig,
                                     desiredKubeadmConfigCopy)
        currentInfraMachineSynced ==
            syncLabelsAndAnnotations(machineUpToDateResult.CurrentInfraMachine,
                                     desiredInfraMachineCopy)
        desiredMachineForDiff == ssaPatchDryRun(machineUpToDateResult.DesiredMachine)
        currentInfraMachineForDiff == ssaPatchDryRun(currentInfraMachineSynced)
        desiredInfraMachineForDiff == ssaPatchDryRun(desiredInfraMachineCopy)
        prepared == PrepareKubeadmConfigsForDiff(desiredKubeadmConfigCopy,
                                                 currentKubeadmConfigSynced)
        desiredKubeadmConfigForDiff == prepared[1]
        currentKubeadmConfigForDiff == prepared[2]
        curBoot == convertToRawExtension(cleanupKubeadmConfig(currentKubeadmConfigForDiff),
                                         fault = "convCurrentBootstrapConfig")
        desBoot == convertToRawExtension(cleanupKubeadmConfig(desiredKubeadmConfigForDiff),
                                         fault = "convDesiredBootstrapConfig")
        curInfra == convertToRawExtension(cleanupUnstructured(currentInfraMachineForDiff),
                                          fault = "convCurrentInfrastructureMachine")
        desInfra == convertToRawExtension(cleanupUnstructured(desiredInfraMachineForDiff),
                                          fault = "convDesiredInfrastructureMachine")
    IN  CASE fault = "ssaDesiredMachine" ->
               [err |-> "server side apply dry-run failed for desired Machine", req |-> NoReq]
          [] fault = "ssaCurrentInfraMachine" ->
               [err |-> "server side apply dry-run failed for current InfraMachine", req |-> NoReq]
          [] fault = "ssaDesiredInfraMachine" ->
               [err |-> "server side apply dry-run failed for desired InfraMachine", req |-> NoReq]
          [] curBoot.err # NoErr -> [err |-> curBoot.err, req |-> NoReq]
          [] desBoot.err # NoErr -> [err |-> desBoot.err, req |-> NoReq]
          [] curInfra.err # NoErr -> [err |-> curInfra.err, req |-> NoReq]
          [] desInfra.err # NoErr -> [err |-> desInfra.err, req |-> NoReq]
          [] OTHER ->
               [err |-> NoErr,
                req |-> [Current |-> [Machine |-> cleanupMachine(currentMachineForDiff),
                                      BootstrapConfig |-> curBoot.ext,
                                      InfrastructureMachine |-> curInfra.ext],
                         Desired |-> [Machine |-> cleanupMachine(desiredMachineForDiff),
                                      BootstrapConfig |-> desBoot.ext,
                                      InfrastructureMachine |-> desInfra.ext]]]

(***************************************************************************)
(* Patch application (applyPatchToObject, applyPatchToMachine,             *)
(* applyPatchesToRequest)                                                  *)
(***************************************************************************)
\* Patch.IsDefined of the runtime hooks API: a patch is defined when its type
\* or its payload is set.
IsDefined(patch) == patch.PatchType # "" \/ patch.Patch.form # "empty"

\* One RFC 6902 operation on a document.  [err, doc].
applyOperation(doc, o) ==
    CASE o.op = "replace" /\ o.path = "spec" ->
            [err |-> NoErr, doc |-> [doc EXCEPT !.spec = o.value]]
      [] o.op = "replace" /\ o.path = "labels" ->
            [err |-> NoErr, doc |-> [doc EXCEPT !.labels = o.value]]
      [] o.op = "test" /\ o.path = "spec" ->
            IF doc.spec = o.value
            THEN [err |-> NoErr, doc |-> doc]
            ELSE [err |-> "testing value failed", doc |-> doc]
      [] OTHER -> [err |-> "missing path", doc |-> doc]

\* jsonpatch.DecodePatch: the operation list of a JSON patch payload.
\* [err, ops].  Only a JSON array decodes.
DecodePatch(payload) ==
    CASE payload.form = "[]" -> [err |-> NoErr, ops |-> <<>>]
      [] payload.form \in {"doc", "panic"} -> [err |-> NoErr, ops |-> payload.ops]
      [] OTHER -> [err |-> "error decoding json patch (RFC6902)", ops |-> <<>>]

\* jsonPatch.Apply: the operations in order; the first failure aborts.
RECURSIVE jsonPatchApply(_, _)
jsonPatchApply(doc, ops) ==
    IF ops = <<>>
    THEN [err |-> NoErr, valid |-> TRUE, doc |-> doc]
    ELSE LET r == applyOperation(doc, Head(ops))
         IN  IF r.err # NoErr
             THEN [err |-> "error applying json patch (RFC6902)", valid |-> FALSE, doc |-> doc]
             ELSE jsonPatchApply(r.doc, Tail(ops))

\* The overlay of an RFC 7386 merge patch applied key by key.
RECURSIVE mergeKeys(_, _)
mergeKeys(doc, ops) ==
    IF ops = <<>>
    THEN doc
    ELSE mergeKeys(IF Head(ops).path = "spec" THEN [doc EXCEPT !.spec = Head(ops).value]
                   ELSE IF Head(ops).path = "labels"
                        THEN [doc EXCEPT !.labels = Head(ops).value]
                        ELSE doc,
                   Tail(ops))

\* jsonpatch.MergePatch: bytes that are not JSON are an error; a patch that
\* is not an object replaces the document; an object is overlaid.
\* [err, valid (the result is a JSON object), doc].
MergePatch(doc, payload) ==
    CASE payload.form = "garbage" ->
            [err |-> "error applying json merge patch (RFC7386)", valid |-> FALSE, doc |-> doc]
      [] payload.form = "[]" -> [err |-> NoErr, valid |-> FALSE, doc |-> doc]
      [] OTHER -> [err |-> NoErr, valid |-> TRUE, doc |-> mergeKeys(doc, payload.ops)]

\* patchutil.PatchSpec(obj, patchedObject): the spec of patchedObject written
\* over the spec of obj, in Raw and in Object; nothing else of obj changes.
\* [err, obj].
PatchSpec(obj, patched) ==
    IF ~patched.valid
    THEN [err |-> "failed to apply patch to object", obj |-> obj]
    ELSE [err |-> NoErr,
          obj |-> [Raw |-> [obj.Raw EXCEPT !.spec = patched.doc.spec],
                   Object |-> [obj.Object EXCEPT !.spec = patched.doc.spec]]]

\* applyPatchToObject returning without having touched obj.
notChanged(obj, e) == [objChanged |-> FALSE, err |-> e, obj |-> obj]

\* applyPatchToObject, the end: the outcome w of PatchSpec.
afterPatchSpec(obj, w) ==
    IF w.err # NoErr
    THEN notChanged(obj, "failed to apply patch to object")
    ELSE [objChanged |-> TRUE, err |-> NoErr, obj |-> w.obj]

\* Mutant: the patch library works on obj.Raw itself, not on a clone of it, so
\* a failing patch leaves what it did so far in the target.
afterLibrary_InPlace(obj, a, e) ==
    IF a.err # NoErr
    THEN [objChanged |-> FALSE, err |-> e, obj |-> [Raw |-> a.doc, Object |-> obj.Object]]
    ELSE afterPatchSpec(obj, PatchSpec(obj, a))

\* Mutant: the patched document replaces the target whole; PatchSpec is not
\* used.
afterLibrary_WholeDocument(obj, a, e) ==
    IF a.err # NoErr THEN notChanged(obj, e)
    ELSE [objChanged |-> TRUE, err |-> NoErr, obj |-> [Raw |-> a.doc, Object |-> a.doc]]

\* applyPatchToObject after the patch library returned a (or e on failure).
afterLibrary(obj, a, e) ==
    IF a.err # NoErr THEN notChanged(obj, e) ELSE afterPatchSpec(obj, PatchSpec(obj, a))

\* applyPatchToObject, case JSONPatchType, with the decoded payload.
applyJSONPatch(obj, patch, decoded) ==
    IF decoded.err # NoErr
    THEN notChanged(obj, "failed to apply patch: error decoding json patch (RFC6902)")
    ELSE IF patch.Patch.form = "panic"
    THEN notChanged(obj, "observed a panic when applying patch")
    ELSE IF Len(decoded.ops) = 0
    THEN notChanged(obj, NoErr)
    ELSE afterLibrary(obj, jsonPatchApply(obj.Raw, decoded.ops),
                      "failed to apply patch: error applying json patch (RFC6902)")

\* Mutant: the comparison of the payload with "{}" is missing.
applyJSONMergePatch_NoEmptyObjectCheck(obj, patch) ==
    IF patch.Patch.form = "empty"
    THEN notChanged(obj, NoErr)
    ELSE IF patch.Patch.form = "panic"
    THEN notChanged(obj, "observed a panic when applying patch")
    ELSE afterLibrary(obj, MergePatch(obj.Raw, patch.Patch),
                      "failed to apply patch: error applying json merge patch (RFC7386)")

\* applyPatchToObject, case JSONMergePatchType.
applyJSONMergePatch(obj, patch) ==
    IF patch.Patch.form \in {"empty", "{}"}
    THEN notChanged(obj, NoErr)
    ELSE IF patch.Patch.form = "panic"
    THEN notChanged(obj, "observed a panic when applying patch")
    ELSE afterLibrary(obj, MergePatch(obj.Raw, patch.Patch),
                      "failed to apply patch: error applying json merge patch (RFC7386)")

\* Mutant: a patch without a type is taken as "nothing to do".
applyPatchToObject_UnsetIsNoOp(obj, patch) ==
    CASE patch.PatchType = "" -> notChanged(obj, NoErr)
      [] patch.PatchType = JSONPatchType -> applyJSONPatch(obj, patch, DecodePatch(patch.Patch))
      [] patch.PatchType = JSONMergePatchType -> applyJSONMergePatch(obj, patch)
      [] OTHER -> notChanged(obj, "failed to apply patch: unknown patchType")

\* applyPatchToObject: [objChanged, err, obj] (obj is the target after the
\* call).  A panic of the patch library is recovered into an error.
applyPatchToObject(obj, patch) ==
    CASE patch.PatchType = "" -> notChanged(obj, "failed to apply patch: patchType is not set")
      [] patch.PatchType = JSONPatchType -> applyJSONPatch(obj, patch, DecodePatch(patch.Patch))
      [] patch.PatchType = JSONMergePatchType -> applyJSONMergePatch(obj, patch)
      [] OTHER -> notChanged(obj, "failed to apply patch: unknown patchType")

\* json.Unmarshal of the patched raw Machine into a fresh Machine.
unmarshalMachine(raw) ==
    [gvk |-> raw.gvk, name |-> raw.name, namespace |-> raw.namespace,
     labels |-> raw.labels, annotations |-> raw.annotations, spec |-> raw.spec]

\* applyPatchToMachine after applyPatchToObject returned r for the raw Machine.
afterMachinePatch(currentMachine, r) ==
    IF r.err # NoErr THEN [err |-> r.err, machine |-> currentMachine]
    ELSE IF ~r.objChanged THEN [err |-> NoErr, machine |-> currentMachine]
    ELSE [err |-> NoErr, machine |-> unmarshalMachine(r.obj.Raw)]

\* applyPatchToMachine after the Machine was converted (conv).
patchConvertedMachine(currentMachine, conv, machinePatch) ==
    IF conv.err # NoErr
    THEN [err |-> conv.err, machine |-> currentMachine]
    ELSE afterMachinePatch(currentMachine, applyPatchToObject(conv.ext, machinePatch))

\* applyPatchToMachine: the Machine converted to a RawExtension, patched, and
\* decoded again when the patch changed it.  [err, machine].
applyPatchToMachine(currentMachine, machinePatch) ==
    patchConvertedMachine(currentMachine, convertToRawExtension(currentMachine, FALSE),
                          machinePatch)

\* A CanUpdateMachineResponse: one (possibly undefined) patch per resource.
Response(m, b, i) ==
    [MachinePatch |-> m, BootstrapConfigPatch |-> b, InfrastructureMachinePatch |-> i]

\* Mutant: the InfrastructureMachine patch is never applied.
patchInfrastructureMachine_Skip(req, resp) == [err |-> NoErr, req |-> req]

\* Mutant: the InfrastructureMachine patch is applied to the desired object.
patchInfrastructureMachine_Desired(req, resp) ==
    IF IsDefined(resp.InfrastructureMachinePatch)
    THEN LET done(i) == [err |-> i.err,
                         req |-> [req EXCEPT !.Desired.InfrastructureMachine = i.obj]]
         IN  done(applyPatchToObject(req.Desired.InfrastructureMachine,
                                     resp.InfrastructureMachinePatch))
    ELSE [err |-> NoErr, req |-> req]

\* applyPatchesToRequest, third block: the InfrastructureMachine patch.
patchInfrastructureMachine(req, resp) ==
    IF IsDefined(resp.InfrastructureMachinePatch)
    THEN LET done(i) == [err |-> i.err,
                         req |-> [req EXCEPT !.Current.InfrastructureMachine = i.obj]]
             \* The call is made once; done takes its result.
         IN  CHOOSE d \in {done(i) : i \in
                              {applyPatchToObject(req.Current.InfrastructureMachine,
                                                  resp.InfrastructureMachinePatch)}} : TRUE
    ELSE [err |-> NoErr, req |-> req]

\* applyPatchesToRequest, second block: the BootstrapConfig patch, then on.
patchBootstrapConfig(req, resp) ==
    IF IsDefined(resp.BootstrapConfigPatch)
    THEN LET done(b) ==
                 IF b.err # NoErr
                 THEN [err |-> b.err, req |-> req]
                 ELSE patchInfrastructureMachine(
                          [req EXCEPT !.Current.BootstrapConfig = b.obj], resp)
         IN  CHOOSE d \in {done(b) : b \in
                              {applyPatchToObject(req.Current.BootstrapConfig,
                                                  resp.BootstrapConfigPatch)}} : TRUE
    ELSE patchInfrastructureMachine(req, resp)

\* applyPatchesToRequest: the defined patches applied to the current side of
\* req, Machine first, then BootstrapConfig, then InfrastructureMachine; the
\* first error returns at once.  [err, req].
applyPatchesToRequest(req, resp) ==
    IF IsDefined(resp.MachinePatch)
    THEN LET done(m) ==
                 IF m.err # NoErr
                 THEN [err |-> m.err, req |-> req]
                 ELSE patchBootstrapConfig([req EXCEPT !.Current.Machine = m.machine], resp)
         IN  CHOOSE d \in {done(m) : m \in
                              {applyPatchToMachine(req.Current.Machine,
                                                   resp.MachinePatch)}} : TRUE
    ELSE patchBootstrapConfig(req, resp)

(***************************************************************************)
(* Convergence check (matchesMachine and the spec comparators)             *)
(***************************************************************************)
\* compare.Diff(a, b): [equal, diff, err].  The diff text of two unequal
\* specs names both; the call can fail with a comparator-internal fault.
Diff(a, b, faults) ==
    IF faults
    THEN [equal |-> FALSE, diff |-> <<>>, err |-> "failed to diff"]
    ELSE [equal |-> (a = b), diff |-> IF a = b THEN <<>> ELSE <<a.spec, b.spec>>,
          err |-> NoErr]

\* Mutant: the Machines are compared whole, not wrapped down to their spec.
matchesMachineSpec_WholeObject(patched, desired, faults) == Diff(patched, desired, faults)

\* matchesMachineSpec: the two Machines compared on their spec alone.
matchesMachineSpec(patched, desired, faults) ==
    Diff([spec |-> patched.spec], [spec |-> desired.spec], faults)

\* matchesUnstructuredSpec: the spec of the two Unstructured objects compared.
matchesUnstructuredSpec(patched, desired, faults) ==
    Diff([spec |-> patched.Object.spec], [spec |-> desired.Object.spec], faults)

\* The comparator call of one convergence check that faults, if any.
DiffFaults == {"none", "Machine", "KubeadmConfig", "InfrastructureMachine"}

Reason(resource, diff) == [resource |-> resource, diff |-> diff]

\* Mutant: the comparison stops at the first resource that does not match.
matchesMachine_StopAtFirstMismatch(req, fault) ==
    LET m == matchesMachineSpec(req.Current.Machine, req.Desired.Machine, fault = "Machine")
        b == matchesUnstructuredSpec(req.Current.BootstrapConfig, req.Desired.BootstrapConfig,
                                     fault = "KubeadmConfig")
        i == matchesUnstructuredSpec(req.Current.InfrastructureMachine,
                                     req.Desired.InfrastructureMachine,
                                     fault = "InfrastructureMachine")
    IN  IF m.err # NoErr THEN [matches |-> FALSE, reasons |-> <<>>, err |-> "failed to match Machine"]
        ELSE IF ~m.equal
        THEN [matches |-> FALSE, reasons |-> <<Reason("Machine", m.diff)>>, err |-> NoErr]
        ELSE IF b.err # NoErr
        THEN [matches |-> FALSE, reasons |-> <<>>, err |-> "failed to match KubeadmConfig"]
        ELSE IF ~b.equal
        THEN [matches |-> FALSE, reasons |-> <<Reason("KubeadmConfig", b.diff)>>, err |-> NoErr]
        ELSE IF i.err # NoErr
        THEN [matches |-> FALSE, reasons |-> <<>>, err |-> "failed to match InfrastructureMachine"]
        ELSE IF ~i.equal
        THEN [matches |-> FALSE,
              reasons |-> <<Reason(req.Current.InfrastructureMachine.Object.gvk, i.diff)>>,
              err |-> NoErr]
        ELSE [matches |-> TRUE, reasons |-> <<>>, err |-> NoErr]

\* matchesMachine: [matches, reasons, err].
matchesMachine(req, fault) ==
    LET m == matchesMachineSpec(req.Current.Machine, req.Desired.Machine, fault = "Machine")
        b == matchesUnstructuredSpec(req.Current.BootstrapConfig, req.Desired.BootstrapConfig,
                                     fault = "KubeadmConfig")
        i == matchesUnstructuredSpec(req.Current.InfrastructureMachine,
                                     req.Desired.InfrastructureMachine,
                                     fault = "InfrastructureMachine")
        reasons ==
            (IF ~m.equal THEN <<Reason("Machine", m.diff)>> ELSE <<>>)
            \o (IF ~b.equal THEN <<Reason("KubeadmConfig", b.diff)>> ELSE <<>>)
            \o (IF ~i.equal
                THEN <<Reason(req.Current.InfrastructureMachine.Object.gvk, i.diff)>>
                ELSE <<>>)
    IN  IF m.err # NoErr THEN [matches |-> FALSE, reasons |-> <<>>, err |-> "failed to match Machine"]
        ELSE IF b.err # NoErr
        THEN [matches |-> FALSE, reasons |-> <<>>, err |-> "failed to match KubeadmConfig"]
        ELSE IF i.err # NoErr
        THEN [matches |-> FALSE, reasons |-> <<>>, err |-> "failed to match InfrastructureMachine"]
        ELSE IF Len(reasons) > 0
        THEN [matches |-> FALSE, reasons |-> reasons, err |-> NoErr]
        ELSE [matches |-> TRUE, reasons |-> <<>>, err |-> NoErr]

(***************************************************************************)
(* The evaluation: inputs, state and results                               *)
(***************************************************************************)
VARIABLES
    entry,                  \* the function called
    featureGate,            \* feature.Gates.Enabled(feature.InPlaceUpdates)
    machine,                \* the live Machine passed in
    machineUpToDateResult,  \* the UpToDateResult passed in (objects or Nil)
    extensionHandlers,      \* handlers GetAllExtensions returns / the list passed in
    getAllExtensionsFails,  \* GetAllExtensions returns an error
    createFault,            \* the step of createRequest that fails ("none": no step)
    profile,                \* what is known of the handlers: "any", or "lastConverges"
    pc,                     \* "entry", "loop" (before the call of handler idx+1), "returned"
    req,                    \* the CanUpdateMachineRequest being negotiated
    req0,                   \* the request as createRequest returned it
    idx,                    \* number of loop iterations completed
    reasons,                \* the loop's reasons variable
    called,                 \* the handlers invoked so far, in order
    seen,                   \* the request passed to the latest CallExtension
    lastMatch,              \* the result of the latest matchesMachine call
    fault,                  \* what failed in the latest iteration ("none": nothing)
    patched,                \* some response so far carried a defined patch
    badFormat,              \* the latest response carried a defined patch of no supported type
    arg,                    \* the arguments of a direct call of the patch engine
    ret,                    \* what the direct call of the patch engine returned
    heap,                   \* the objects behind the pointers of concurrent evaluations
    ptr,                    \* per concurrent evaluation: the ...ForDiff pointers of createRequest
    ev,                     \* per concurrent evaluation: position, request, reasons, result
    behaviour,              \* per handler: how it answers in concurrent evaluations
    trace,                  \* the external collaborator calls made, in order
    orchResult,             \* what canExtensionsUpdateMachine returned
    gateResult              \* what canUpdateMachine returned

vars == <<entry, featureGate, machine, machineUpToDateResult, extensionHandlers,
          getAllExtensionsFails, createFault, profile, pc, req, req0, idx, reasons,
          called, seen, lastMatch, fault, patched, badFormat, arg, ret, trace,
          orchResult, gateResult, heap, ptr, ev, behaviour>>

\* The state of the concurrent evaluations.
shared == <<heap, ptr, ev, behaviour>>

inputs == <<entry, featureGate, machine, machineUpToDateResult, extensionHandlers,
            getAllExtensionsFails, createFault, profile, arg>>

ObjectNames == {"DesiredMachine", "CurrentInfraMachine", "DesiredInfraMachine",
                "CurrentKubeadmConfig", "DesiredKubeadmConfig"}

\* An UpToDateResult with every object present.
Snapshot(dm, ci, di, cb, db, desiredLabels) ==
    [DesiredMachine |-> Obj("", "m1", desiredLabels, dm),
     CurrentInfraMachine |-> Obj(InfraGVK, "m1", "la", ci),
     DesiredInfraMachine |-> Obj(InfraGVK, "m1", desiredLabels, di),
     CurrentKubeadmConfig |-> Obj("", "m1", "la", cb),
     DesiredKubeadmConfig |-> Obj("", "m1", desiredLabels, db)]

CompleteSnapshots ==
    {Snapshot(dm, ci, di, cb, db, l) :
        dm \in SpecVals, ci \in SpecVals, di \in SpecVals, cb \in SpecVals,
        db \in SpecVals, l \in LabelVals}

\* UpToDateResults with the objects of a non-empty set missing.
IncompleteSnapshots ==
    {[n \in ObjectNames |->
        IF n \in missing THEN Nil ELSE Snapshot("v1", "v1", "v1", "v1", "v1", "la")[n]] :
     missing \in (SUBSET ObjectNames) \ {{}}}

Complete(r) ==
    ~(r.DesiredMachine = Nil \/ r.CurrentInfraMachine = Nil \/ r.DesiredInfraMachine = Nil
      \/ r.CurrentKubeadmConfig = Nil \/ r.DesiredKubeadmConfig = Nil)

NotReturnedOrch == [returned |-> FALSE, canUpdate |-> FALSE, reasons |-> <<>>, err |-> NoErr]
NotReturnedGate == [returned |-> FALSE, canUpdate |-> FALSE, err |-> NoErr]
NoMatchYet == [checked |-> FALSE, matches |-> FALSE, reasons |-> <<>>, err |-> NoErr]

OrchReturn(canUpdate, rs, err) ==
    [returned |-> TRUE, canUpdate |-> canUpdate, reasons |-> rs, err |-> err]
GateReturn(canUpdate, err) == [returned |-> TRUE, canUpdate |-> canUpdate, err |-> err]

\* No direct call of the patch engine: its arguments and its return value.
NoArg == [obj |-> Nil, patch |-> NoPatch]
NoRet == Nil

\* The RawExtensions createRequest builds for an InfrastructureMachine and for
\* a KubeadmConfig: targets of a direct applyPatchToObject call.
RawExtensions ==
    {convertToRawExtension(cleanupUnstructured(Obj(InfraGVK, "m1", l, s)), FALSE).ext :
        l \in LabelVals, s \in SpecVals}
    \cup {convertToRawExtension(cleanupKubeadmConfig(Obj("", "m1", l, s)), FALSE).ext :
            l \in LabelVals, s \in SpecVals}

\* The Machines createRequest builds: targets of a direct applyPatchToMachine
\* call.
Machines == {cleanupMachine(Obj("", "m1", l, s)) : l \in LabelVals, s \in SpecVals}

\* What an evaluation or a direct call starts with, besides its inputs.
Fresh ==
    /\ pc = "entry"
    /\ req = NoReq
    /\ req0 = NoReq
    /\ idx = 0
    /\ reasons = <<>>
    /\ called = <<>>
    /\ seen = NoReq
    /\ lastMatch = NoMatchYet
    /\ fault = "none"
    /\ patched = FALSE
    /\ badFormat = FALSE
    /\ ret = NoRet
    /\ trace = <<>>
    /\ orchResult = NotReturnedOrch
    /\ gateResult = NotReturnedGate

\* The inputs of a direct call of applyPatchToObject or applyPatchToMachine.
InitCall ==
    /\ entry \in {"applyPatchToObject", "applyPatchToMachine"}
    /\ arg \in {[obj |-> o, patch |-> p] :
                   o \in IF entry = "applyPatchToObject" THEN RawExtensions ELSE Machines,
                   p \in Patches}
    /\ featureGate = TRUE
    /\ machine = Obj("", "m1", "la", "v1")
    /\ machineUpToDateResult = Snapshot("v1", "v1", "v1", "v1", "v1", "la")
    /\ extensionHandlers = <<>>
    /\ getAllExtensionsFails = FALSE
    /\ createFault = "none"
    /\ profile = "any"

\* The inputs of an evaluation.
InitEvaluation ==
    /\ entry \in {"canUpdateMachine", "canExtensionsUpdateMachine"}
    /\ arg = NoArg
    /\ featureGate \in BOOLEAN
    /\ machine \in {Obj("", "m1", "la", s) : s \in SpecVals}
    /\ machineUpToDateResult \in CompleteSnapshots \cup IncompleteSnapshots
    /\ extensionHandlers \in {SubSeq(HandlerNames, 1, n) : n \in 0..MaxHandlers}
    /\ getAllExtensionsFails \in BOOLEAN
    /\ createFault \in CreateFaultSet
    /\ profile \in {"any", "lastConverges"}
    \* Inputs the called function never reads are held at one value.
    /\ entry = "canExtensionsUpdateMachine" =>
          featureGate /\ ~getAllExtensionsFails /\ Complete(machineUpToDateResult)
    /\ ~Complete(machineUpToDateResult) => machine.spec = "v1"
    /\ createFault # "none" =>
          /\ featureGate /\ ~getAllExtensionsFails /\ Complete(machineUpToDateResult)
          /\ entry = "canUpdateMachine" => Len(extensionHandlers) = 1
    /\ profile = "lastConverges" =>
          /\ featureGate /\ ~getAllExtensionsFails /\ Complete(machineUpToDateResult)
          /\ createFault = "none" /\ Len(extensionHandlers) >= 1

\* No concurrent evaluations.
NoShared == heap = <<>> /\ ptr = <<>> /\ ev = <<>> /\ behaviour = <<>>

Init == (InitEvaluation \/ InitCall) /\ Fresh /\ NoShared

(***************************************************************************)
(* canUpdateMachine (the gate)                                             *)
(***************************************************************************)
\* Mutant: any handler count other than one is reported as an error.
canUpdateMachinePreconditions_NotOne(enabled, upToDate, getFails, handlers) ==
    CASE ~enabled ->
            [proceed |-> FALSE, queried |-> FALSE, result |-> GateReturn(FALSE, NoErr)]
      [] ~Complete(upToDate) ->
            [proceed |-> FALSE, queried |-> FALSE, result |-> GateReturn(FALSE, NoErr)]
      [] getFails ->
            [proceed |-> FALSE, queried |-> TRUE,
             result |-> GateReturn(FALSE, "GetAllExtensions failed")]
      [] Len(handlers) # 1 ->
            [proceed |-> FALSE, queried |-> TRUE,
             result |-> GateReturn(FALSE, "found multiple CanUpdateMachine hooks")]
      [] OTHER ->
            [proceed |-> TRUE, queried |-> TRUE, result |-> NotReturnedGate]

\* Mutant: the check for more than one handler is missing.
canUpdateMachinePreconditions_NoLimit(enabled, upToDate, getFails, handlers) ==
    CASE ~enabled ->
            [proceed |-> FALSE, queried |-> FALSE, result |-> GateReturn(FALSE, NoErr)]
      [] ~Complete(upToDate) ->
            [proceed |-> FALSE, queried |-> FALSE, result |-> GateReturn(FALSE, NoErr)]
      [] getFails ->
            [proceed |-> FALSE, queried |-> TRUE,
             result |-> GateReturn(FALSE, "GetAllExtensions failed")]
      [] Len(handlers) = 0 ->
            [proceed |-> FALSE, queried |-> TRUE, result |-> GateReturn(FALSE, NoErr)]
      [] OTHER ->
            [proceed |-> TRUE, queried |-> TRUE, result |-> NotReturnedGate]

\* Mutant: the handlers are looked up first, before the feature gate and the
\* UpToDateResult are looked at.
canUpdateMachinePreconditions_LookupFirst(enabled, upToDate, getFails, handlers) ==
    CASE getFails ->
            [proceed |-> FALSE, queried |-> TRUE,
             result |-> GateReturn(FALSE, "GetAllExtensions failed")]
      [] ~enabled ->
            [proceed |-> FALSE, queried |-> TRUE, result |-> GateReturn(FALSE, NoErr)]
      [] ~Complete(upToDate) ->
            [proceed |-> FALSE, queried |-> TRUE, result |-> GateReturn(FALSE, NoErr)]
      [] Len(handlers) = 0 ->
            [proceed |-> FALSE, queried |-> TRUE, result |-> GateReturn(FALSE, NoErr)]
      [] Len(handlers) > 1 ->
            [proceed |-> FALSE, queried |-> TRUE,
             result |-> GateReturn(FALSE, "found multiple CanUpdateMachine hooks")]
      [] OTHER ->
            [proceed |-> TRUE, queried |-> TRUE, result |-> NotReturnedGate]

\* The preconditions of canUpdateMachine, in code order.  proceed: the
\* orchestrator is called; queried: GetAllExtensions was called; result: what
\* is returned when the orchestrator is not called.
canUpdateMachinePreconditions(enabled, upToDate, getFails, handlers) ==
    CASE ~enabled ->
            [proceed |-> FALSE, queried |-> FALSE, result |-> GateReturn(FALSE, NoErr)]
      [] ~Complete(upToDate) ->
            [proceed |-> FALSE, queried |-> FALSE, result |-> GateReturn(FALSE, NoErr)]
      [] getFails ->
            [proceed |-> FALSE, queried |-> TRUE,
             result |-> GateReturn(FALSE, "GetAllExtensions failed")]
      [] Len(handlers) = 0 ->
            [proceed |-> FALSE, queried |-> TRUE, result |-> GateReturn(FALSE, NoErr)]
      [] Len(handlers) > 1 ->
            [proceed |-> FALSE, queried |-> TRUE,
             result |-> GateReturn(FALSE, "found multiple CanUpdateMachine hooks")]
      [] OTHER ->
            [proceed |-> TRUE, queried |-> TRUE, result |-> NotReturnedGate]

\* Mutant: the not-updatable branch is missing.
canUpdateMachineResult_NoDeny(o) ==
    IF o.err # NoErr THEN GateReturn(FALSE, o.err) ELSE GateReturn(TRUE, NoErr)

\* canUpdateMachine after canExtensionsUpdateMachine returned o.
canUpdateMachineResult(o) ==
    IF o.err # NoErr THEN GateReturn(FALSE, o.err)
    ELSE IF ~o.canUpdate THEN GateReturn(FALSE, NoErr)
    ELSE GateReturn(TRUE, NoErr)

(***************************************************************************)
(* canExtensionsUpdateMachine (the orchestrator)                           *)
(***************************************************************************)
\* Mutant: every iteration starts again from the initial request.
loopRequest_Reset(r, r0) == r0

\* The request an iteration of the loop passes to CallExtension and patches:
\* the one request created before the loop (r), not a fresh copy of the
\* initial request (r0).
loopRequest(r, r0) == r

\* Mutant: a match does not return; the loop goes on to the next handler.
checkConvergence_NoEarlyReturn(r, rs, m) ==
    IF m.err # NoErr
    THEN [kind |-> "error", req |-> r, reasons |-> <<>>,
          err |-> "failed to compare current and desired objects"]
    ELSE [kind |-> "next", req |-> r, reasons |-> m.reasons, err |-> NoErr]

\* Mutant: the reasons of a round are appended to those of earlier rounds.
checkConvergence_Accumulate(r, rs, m) ==
    IF m.err # NoErr
    THEN [kind |-> "error", req |-> r, reasons |-> <<>>,
          err |-> "failed to compare current and desired objects"]
    ELSE IF m.matches
    THEN [kind |-> "converged", req |-> r, reasons |-> <<>>, err |-> NoErr]
    ELSE [kind |-> "next", req |-> r, reasons |-> rs \o m.reasons, err |-> NoErr]

\* The end of an iteration: the outcome of the convergence check m on the
\* patched request r.  kind "error" and "converged" return from the function,
\* "next" goes on to the next handler with the reasons of this check.
checkConvergence(r, rs, m) ==
    IF m.err # NoErr
    THEN [kind |-> "error", req |-> r, reasons |-> <<>>,
          err |-> "failed to compare current and desired objects"]
    ELSE IF m.matches
    THEN [kind |-> "converged", req |-> r, reasons |-> <<>>, err |-> NoErr]
    ELSE [kind |-> "next", req |-> r, reasons |-> m.reasons, err |-> NoErr]

\* Mutant: an error of applyPatchesToRequest is dropped and the check is made.
afterPatches_IgnoreError(a, rs, m) == checkConvergence(a.req, rs, m)

\* The iteration after applyPatchesToRequest returned a and, when it did not
\* fail, matchesMachine returned m.
afterPatches(a, rs, m) ==
    IF a.err # NoErr
    THEN [kind |-> "error", req |-> a.req, reasons |-> <<>>,
          err |-> "failed to apply patches from extension"]
    ELSE checkConvergence(a.req, rs, m)

\* What the collaborators of an iteration did: the step that failed, and the
\* result of the convergence check when it was made.
observed(a, m) ==
    IF a.err # NoErr
    THEN [fault |-> "patch", match |-> NoMatchYet]
    ELSE [fault |-> IF m.err # NoErr THEN "compare" ELSE "none",
          match |-> [checked |-> TRUE, matches |-> m.matches, reasons |-> m.reasons,
                     err |-> m.err]]

afterMatch(a, rs, m) == afterPatches(a, rs, m) @@ observed(a, m)

\* The iteration after CallExtension answered: patches, then the check.
afterCall(a, rs, diffFault) == afterMatch(a, rs, matchesMachine(a.req, diffFault))

\* One iteration of the loop on request r with reasons rs: the extension
\* call (failing or answering resp), the patches, the convergence check.
loopBody(r, rs, callFails, resp, diffFault) ==
    IF callFails
    THEN [kind |-> "error", req |-> r, reasons |-> <<>>, err |-> "CallExtension failed",
          fault |-> "call", match |-> NoMatchYet]
    ELSE afterCall(applyPatchesToRequest(r, resp), rs, diffFault)

\* What canExtensionsUpdateMachine returns when iteration outcome s ends it
\* (s.kind = "next" after the last handler: the return after the loop).
loopReturn(s) ==
    CASE s.kind = "error" -> OrchReturn(FALSE, <<>>, s.err)
      [] s.kind = "converged" -> OrchReturn(TRUE, <<>>, NoErr)
      [] OTHER -> OrchReturn(FALSE, s.reasons, NoErr)

\* canExtensionsUpdateMachine returns o; when canUpdateMachine called it,
\* canUpdateMachine returns as well.
Finish(o) ==
    /\ pc' = "returned"
    /\ orchResult' = o
    /\ gateResult' = IF entry = "canUpdateMachine" THEN canUpdateMachineResult(o)
                     ELSE gateResult

\* Mutant: with no handler to call, the request as built is checked for
\* convergence and a match returns true.
Begin_CheckWithoutHandlers ==
    LET cr == createRequest(machine, machineUpToDateResult, createFault)
    IN  /\ trace' = (IF entry = "canUpdateMachine" THEN <<"GetAllExtensions">> ELSE <<>>)
                      \o [k \in 1..dryRunCalls(createFault) |-> "ssa.Patch"]
        /\ req' = cr.req
        /\ req0' = cr.req
        /\ IF cr.err # NoErr
           THEN Finish(OrchReturn(FALSE, <<>>, "failed to generate CanUpdateMachine request"))
           ELSE IF Len(extensionHandlers) = 0
           THEN Finish(IF matchesMachine(cr.req, "none").matches
                       THEN OrchReturn(TRUE, <<>>, NoErr)
                       ELSE OrchReturn(FALSE, reasons, NoErr))
           ELSE /\ pc' = "loop"
                /\ UNCHANGED <<orchResult, gateResult>>

\* The start of canExtensionsUpdateMachine: createRequest, then the loop.
Begin ==
    LET cr == createRequest(machine, machineUpToDateResult, createFault)
    IN  /\ trace' = (IF entry = "canUpdateMachine" THEN <<"GetAllExtensions">> ELSE <<>>)
                      \o [k \in 1..dryRunCalls(createFault) |-> "ssa.Patch"]
        /\ req' = cr.req
        /\ req0' = cr.req
        /\ IF cr.err # NoErr
           THEN Finish(OrchReturn(FALSE, <<>>, "failed to generate CanUpdateMachine request"))
           ELSE IF Len(extensionHandlers) = 0
           THEN Finish(OrchReturn(FALSE, reasons, NoErr))
           ELSE /\ pc' = "loop"
                /\ UNCHANGED <<orchResult, gateResult>>

\* A call of canUpdateMachine up to its first extension call or its return.
CanUpdateMachine ==
    /\ pc = "entry"
    /\ entry = "canUpdateMachine"
    /\ LET p == canUpdateMachinePreconditions(featureGate, machineUpToDateResult,
                                              getAllExtensionsFails, extensionHandlers)
       IN  IF p.proceed
           THEN Begin
           ELSE /\ pc' = "returned"
                /\ gateResult' = p.result
                /\ trace' = IF p.queried THEN <<"GetAllExtensions">> ELSE <<>>
                /\ UNCHANGED <<req, req0, orchResult>>
    /\ UNCHANGED <<inputs, idx, reasons, called, seen, lastMatch, fault, patched,
                   badFormat, ret, shared>>

\* A direct call of canExtensionsUpdateMachine with the handler list, up to
\* its first extension call or its return.
CanExtensionsUpdateMachine ==
    /\ pc = "entry"
    /\ entry = "canExtensionsUpdateMachine"
    /\ Begin
    /\ UNCHANGED <<inputs, idx, reasons, called, seen, lastMatch, fault, patched,
                   badFormat, ret, shared>>

\* The basic answers for the three resources together.
BasicPatches == {NoPatch, SetSpec(JSONPatchType, "v1"), SetSpec(JSONMergePatchType, "v2")}

BasicResponses ==
    {Response(m, b, i) : m \in BasicPatches, b \in BasicPatches, i \in BasicPatches}

\* The responses of an extension: the basic answers, and every patch for one
\* resource alone or next to basic patches before it.
Responses ==
    BasicResponses
    \cup {Response(p, NoPatch, NoPatch) : p \in Patches}
    \cup {Response(m, p, NoPatch) : m \in {NoPatch, SetSpec(JSONPatchType, "v2")}, p \in Patches}
    \cup {Response(NoPatch, b, p) : b \in {NoPatch, SetSpec(JSONPatchType, "v2")}, p \in Patches}

\* What one iteration gets from its collaborators.
RoundInputs ==
    {[callFails |-> TRUE, resp |-> Response(NoPatch, NoPatch, NoPatch), diffFault |-> "none"]}
    \cup {[callFails |-> FALSE, resp |-> r, diffFault |-> "none"] : r \in Responses}
    \cup {[callFails |-> FALSE, resp |-> Response(m, NoPatch, NoPatch), diffFault |-> f] :
            m \in BasicPatches, f \in DiffFaults}

\* The response that sets every current spec of r to the desired spec.
ConvergingResponse(r) ==
    Response(SetSpec(JSONPatchType, r.Desired.Machine.spec),
             SetSpec(JSONMergePatchType, r.Desired.BootstrapConfig.Object.spec),
             SetSpec(JSONPatchType, r.Desired.InfrastructureMachine.Object.spec))

\* How a handler with a fixed behaviour answers: by the request alone.
Behaviours == {"none", "converge", "infra", "bad"}

Answer(b, r) ==
    CASE b = "converge" -> ConvergingResponse(r)
      [] b = "infra" -> Response(NoPatch, NoPatch, SetSpec(JSONMergePatchType, "v2"))
      [] b = "bad" -> Response(NoPatch, Patch(JSONPatchType, "garbage", <<>>), NoPatch)
      [] OTHER -> Response(NoPatch, NoPatch, NoPatch)

\* What an iteration gets of a handler and of the comparator when both are
\* scripted: besides the answers, a failing call and a failing comparison.
Scripts == Behaviours \cup {"callFails", "diffFault"}

Scripted(b, r) ==
    [callFails |-> (b = "callFails"), resp |-> Answer(b, r),
     diffFault |-> IF b = "diffFault" THEN "KubeadmConfig" ELSE "none"]

\* The inputs of the iteration for handler k of n on request r.  Under the
\* profile "lastConverges" the last handler answers with the converging
\* response and every call and comparison succeeds.
InputsOf(k, n, r) ==
    IF profile = "lastConverges"
    THEN IF k = n
         THEN {[callFails |-> FALSE, resp |-> ConvergingResponse(r), diffFault |-> "none"]}
         ELSE {[callFails |-> FALSE, resp |-> x, diffFault |-> "none"] : x \in BasicResponses}
    ELSE IF profile = "scripted"
    THEN {Scripted(behaviour[k], r)}
    ELSE RoundInputs

\* A defined patch whose type is none of the two the switch of
\* applyPatchToObject knows.
Unsupported(patch) ==
    IsDefined(patch) /\ patch.PatchType \notin {JSONPatchType, JSONMergePatchType}

SomeUnsupported(resp) ==
    \/ Unsupported(resp.MachinePatch)
    \/ Unsupported(resp.BootstrapConfigPatch)
    \/ Unsupported(resp.InfrastructureMachinePatch)

\* Mutant: the handlers are taken from the end of the list.
nextHandler_Reversed(handlers, i) == handlers[Len(handlers) - i]

\* The handler the range loop takes after i iterations.
nextHandler(handlers, i) == handlers[i + 1]

SomeDefined(resp) ==
    \/ IsDefined(resp.MachinePatch)
    \/ IsDefined(resp.BootstrapConfigPatch)
    \/ IsDefined(resp.InfrastructureMachinePatch)

\* One iteration of the loop: handler idx+1 is called.
Round ==
    /\ pc = "loop"
    /\ idx < Len(extensionHandlers)
    /\ \E in \in InputsOf(idx + 1, Len(extensionHandlers), req) :
       \E s \in {loopBody(loopRequest(req, req0), reasons, in.callFails, in.resp,
                          in.diffFault)} :
          \* Under "lastConverges" no handler before the last one converges.
          /\ (profile = "lastConverges" /\ idx + 1 < Len(extensionHandlers)) => s.kind = "next"
          /\ called' = Append(called, nextHandler(extensionHandlers, idx))
          /\ trace' = Append(trace, "CallExtension")
          /\ seen' = loopRequest(req, req0)
          /\ req' = s.req
          /\ reasons' = s.reasons
          /\ lastMatch' = IF s.match.checked THEN s.match ELSE lastMatch
          /\ fault' = s.fault
          /\ patched' = (patched \/ (~in.callFails /\ SomeDefined(in.resp)))
          /\ badFormat' = (~in.callFails /\ SomeUnsupported(in.resp))
          /\ idx' = idx + 1
          /\ IF s.kind = "next" /\ idx + 1 < Len(extensionHandlers)
             THEN UNCHANGED <<pc, orchResult, gateResult>>
             ELSE Finish(loopReturn(s))
    /\ UNCHANGED <<inputs, req0, ret, shared>>

\* What a direct call of the patch engine leaves alone.
evaluation == <<req, req0, idx, reasons, called, seen, lastMatch, fault, patched,
                badFormat, trace, orchResult, gateResult>>

\* A direct call of applyPatchToObject on a RawExtension.
ApplyPatchToObject ==
    /\ pc = "entry"
    /\ entry = "applyPatchToObject"
    /\ ret' = applyPatchToObject(arg.obj, arg.patch)
    /\ pc' = "returned"
    /\ UNCHANGED <<inputs, evaluation, shared>>

\* A direct call of applyPatchToMachine on a Machine.
ApplyPatchToMachine ==
    /\ pc = "entry"
    /\ entry = "applyPatchToMachine"
    /\ ret' = applyPatchToMachine(arg.obj, arg.patch)
    /\ pc' = "returned"
    /\ UNCHANGED <<inputs, evaluation, shared>>

Next ==
    \/ CanUpdateMachine
    \/ CanExtensionsUpdateMachine
    \/ Round
    \/ ApplyPatchToObject
    \/ ApplyPatchToMachine

Spec == Init /\ [][Next]_vars

(***************************************************************************)
(* Evaluations with scripted handlers                                      *)
(*                                                                         *)
(* What each handler does (profile "scripted") is fixed before the         *)
(* evaluation starts.  The code is sequential and every call it makes      *)
(* returns: a step that can be taken is taken.                             *)
(***************************************************************************)
\* The UpToDateResults of the scripted evaluations.
ScriptedSnapshots ==
    {Snapshot(dm, ci, "v2", "v2", "v2", "lb") : dm \in SpecVals, ci \in SpecVals}
    \cup {[Snapshot("v1", "v1", "v1", "v1", "v1", "la") EXCEPT ![n] = Nil] :
            n \in {"DesiredMachine", "CurrentKubeadmConfig"}}

InitScripted ==
    /\ entry \in {"canUpdateMachine", "canExtensionsUpdateMachine"}
    /\ arg = NoArg
    /\ featureGate \in BOOLEAN
    /\ machine = Obj("", "m1", "la", "v1")
    /\ machineUpToDateResult \in ScriptedSnapshots
    /\ extensionHandlers \in {SubSeq(HandlerNames, 1, n) : n \in 0..MaxHandlers}
    /\ getAllExtensionsFails \in BOOLEAN
    /\ createFault \in {"none", "ssaCurrentInfraMachine", "convDesiredBootstrapConfig"}
    /\ profile = "scripted"
    /\ entry = "canExtensionsUpdateMachine" =>
          featureGate /\ ~getAllExtensionsFails /\ Complete(machineUpToDateResult)
    /\ Fresh
    /\ heap = <<>> /\ ptr = <<>> /\ ev = <<>>
    /\ behaviour \in [1..Len(extensionHandlers) -> Scripts]

NextScripted == CanUpdateMachine \/ CanExtensionsUpdateMachine \/ Round

ScriptedSpec == InitScripted /\ [][NextScripted]_vars /\ WF_vars(NextScripted)

(***************************************************************************)
(* Concurrent evaluations over the same objects                            *)
(*                                                                         *)
(* The reconciler may run canExtensionsUpdateMachine for the same objects  *)
(* more than once at a time.  The objects are reached through pointers:    *)
(* the heap maps an address to the object behind it, and the steps of      *)
(* createRequest read and write the heap as the code reads and writes      *)
(* through its pointers.                                                   *)
(***************************************************************************)
\* The evaluations running concurrently.
Evals == {1, 2}

\* The pointers createRequest is passed and the ...ForDiff pointers it makes
\* of them, in the order of its DeepCopy calls.
PointerSeq ==
    <<"Machine", "CurrentKubeadmConfig", "CurrentInfraMachine", "DesiredMachine",
      "DesiredKubeadmConfig", "DesiredInfraMachine">>

PointerNames == {PointerSeq[k] : k \in 1..Len(PointerSeq)}

\* Addresses: <<0, n>> is the object n passed in, <<e, n>> the copy of it that
\* evaluation e owns.
Addresses == ({0} \cup Evals) \X PointerNames

\* The heap holding machine m and the objects of the UpToDateResult r.
InputHeap(m, r) ==
    [a \in Addresses |->
        IF a[1] # 0 THEN Nil ELSE IF a[2] = "Machine" THEN m ELSE r[a[2]]]

\* Mutant: no copy is made; the pointer passed in is used as it is.
DeepCopy_Alias(h, src, dst) == [heap |-> h, ptr |-> src]

\* x.DeepCopy(): a new object at dst equal to the one at src, and the pointer
\* to it.
DeepCopy(h, src, dst) == [heap |-> [h EXCEPT ![dst] = h[src]], ptr |-> dst]

\* The DeepCopy calls of createRequest for the pointers names, by evaluation
\* e holding the pointers p.
RECURSIVE deepCopies(_, _, _, _)
deepCopies(h, p, e, names) ==
    IF names = <<>>
    THEN [heap |-> h, ptr |-> p]
    ELSE LET step(c) ==
                 deepCopies(c.heap, [p EXCEPT ![Head(names)] = c.ptr], e, Tail(names))
         IN  step(DeepCopy(h, p[Head(names)], <<e, Head(names)>>))

\* The request createRequest builds of the objects behind the pointers p.
requestOf(h, p) ==
    LET prepared == PrepareKubeadmConfigsForDiff(h[p.DesiredKubeadmConfig],
                                                 h[p.CurrentKubeadmConfig])
    IN  [Current |->
            [Machine |-> cleanupMachine(h[p.Machine]),
             BootstrapConfig |->
                 convertToRawExtension(cleanupKubeadmConfig(prepared[2]), FALSE).ext,
             InfrastructureMachine |->
                 convertToRawExtension(cleanupUnstructured(h[p.CurrentInfraMachine]),
                                       FALSE).ext],
         Desired |->
            [Machine |-> cleanupMachine(h[p.DesiredMachine]),
             BootstrapConfig |->
                 convertToRawExtension(cleanupKubeadmConfig(prepared[1]), FALSE).ext,
             InfrastructureMachine |->
                 convertToRawExtension(cleanupUnstructured(h[p.DesiredInfraMachine]),
                                       FALSE).ext]]

\* The UpToDateResults of the concurrent evaluations.
SharedSnapshots ==
    {Snapshot(dm, ci, "v2", cb, "v2", l) :
        dm \in SpecVals, ci \in SpecVals, cb \in SpecVals, l \in LabelVals}

InitShared ==
    /\ entry = "canExtensionsUpdateMachine"
    /\ arg = NoArg
    /\ featureGate = TRUE
    /\ machine \in {Obj("", "m1", "la", s) : s \in SpecVals}
    /\ machineUpToDateResult \in SharedSnapshots
    /\ extensionHandlers \in {SubSeq(HandlerNames, 1, n) : n \in 1..MaxHandlers}
    /\ getAllExtensionsFails = FALSE
    /\ createFault = "none"
    /\ profile = "any"
    /\ Fresh
    /\ heap = InputHeap(machine, machineUpToDateResult)
    /\ ptr = [e \in Evals |-> [n \in PointerNames |-> <<0, n>>]]
    /\ ev = [e \in Evals |->
               [pc |-> "start", req |-> NoReq, idx |-> 0, reasons |-> <<>>,
                result |-> NotReturnedOrch]]
    /\ behaviour \in [1..Len(extensionHandlers) -> Behaviours]

\* What the steps of a concurrent evaluation leave alone.
single == <<inputs, evaluation, pc, ret, behaviour>>

\* createRequest of evaluation e, the DeepCopy calls.
DeepCopyObjects(e) ==
    /\ ev[e].pc = "start"
    /\ \E c \in {deepCopies(heap, ptr[e], e, PointerSeq)} :
          /\ heap' = c.heap
          /\ ptr' = [ptr EXCEPT ![e] = c.ptr]
    /\ ev' = [ev EXCEPT ![e].pc = "copied"]
    /\ UNCHANGED single

\* createRequest of evaluation e, SetLabels and SetAnnotations on the current
\* KubeadmConfig and InfraMachine.
SyncCurrent(e) ==
    /\ ev[e].pc = "copied"
    /\ heap' = [heap EXCEPT
                   ![ptr[e].CurrentKubeadmConfig] =
                       syncLabelsAndAnnotations(@, heap[ptr[e].DesiredKubeadmConfig]),
                   ![ptr[e].CurrentInfraMachine] =
                       syncLabelsAndAnnotations(@, heap[ptr[e].DesiredInfraMachine])]
    /\ ev' = [ev EXCEPT ![e].pc = "synced"]
    /\ UNCHANGED <<single, ptr>>

\* createRequest of evaluation e, the three ssa.Patch dry-runs: each writes
\* what the API server answers into the object it is passed.
DryRun(e) ==
    /\ ev[e].pc = "synced"
    /\ heap' = [heap EXCEPT ![ptr[e].DesiredMachine] = ssaPatchDryRun(@),
                            ![ptr[e].CurrentInfraMachine] = ssaPatchDryRun(@),
                            ![ptr[e].DesiredInfraMachine] = ssaPatchDryRun(@)]
    /\ ev' = [ev EXCEPT ![e].pc = "normalized"]
    /\ UNCHANGED <<single, ptr>>

\* createRequest of evaluation e, cleanup and conversion: the request.
BuildRequest(e) ==
    /\ ev[e].pc = "normalized"
    /\ ev' = [ev EXCEPT ![e].pc = "loop", ![e].req = requestOf(heap, ptr[e])]
    /\ UNCHANGED <<single, heap, ptr>>

\* One iteration of the loop of evaluation e.
CallHandler(e) ==
    /\ ev[e].pc = "loop"
    /\ \E s \in {loopBody(ev[e].req, ev[e].reasons, FALSE,
                           Answer(behaviour[ev[e].idx + 1], ev[e].req), "none")} :
          ev' = [ev EXCEPT
                   ![e] = [pc |-> IF s.kind = "next" /\ ev[e].idx + 1 < Len(extensionHandlers)
                                  THEN "loop" ELSE "returned",
                           req |-> s.req,
                           idx |-> ev[e].idx + 1,
                           reasons |-> s.reasons,
                           result |-> IF s.kind = "next"
                                         /\ ev[e].idx + 1 < Len(extensionHandlers)
                                      THEN NotReturnedOrch ELSE loopReturn(s)]]
    /\ UNCHANGED <<single, heap, ptr>>

NextShared ==
    \E e \in Evals :
        \/ DeepCopyObjects(e)
        \/ SyncCurrent(e)
        \/ DryRun(e)
        \/ BuildRequest(e)
        \/ CallHandler(e)

SpecShared == InitShared /\ [][NextShared]_vars

(***************************************************************************)
(* Properties                                                              *)
(***************************************************************************)
Gate == entry = "canUpdateMachine"
Returned == pc = "returned"
N == Len(extensionHandlers)

\* The three current specs of request r deep-equal the desired ones.
SpecsEqual(r) ==
    /\ r.Current.Machine.spec = r.Desired.Machine.spec
    /\ r.Current.BootstrapConfig.Object.spec = r.Desired.BootstrapConfig.Object.spec
    /\ r.Current.InfrastructureMachine.Object.spec
         = r.Desired.InfrastructureMachine.Object.spec

\* The specs of the objects passed in already agree.
InputsAgree ==
    /\ Complete(machineUpToDateResult)
    /\ machine.spec = machineUpToDateResult.DesiredMachine.spec
    /\ machineUpToDateResult.CurrentKubeadmConfig.spec
         = machineUpToDateResult.DesiredKubeadmConfig.spec
    /\ machineUpToDateResult.CurrentInfraMachine.spec
         = machineUpToDateResult.DesiredInfraMachine.spec

\* C1: canUpdateMachine returns (true, nil) only when the negotiation
\* converged: whenever it returns true, the error is nil, the orchestrator
\* returned (true, no reasons, nil), and the last convergence check reported a
\* match on a request whose three current specs equal the desired specs.
C1_TrueOnlyWhenConverged ==
    (gateResult.returned /\ gateResult.canUpdate) =>
        /\ gateResult.err = NoErr
        /\ orchResult = OrchReturn(TRUE, <<>>, NoErr)
        /\ lastMatch.checked /\ lastMatch.matches /\ lastMatch.err = NoErr
        /\ SpecsEqual(req)

\* C1 witness: canUpdateMachine returned true after a handler patched the
\* current side.
C1_Witness ==
    /\ Gate /\ gateResult.returned /\ gateResult.canUpdate
    /\ req.Current # req0.Current

\* C2: with the capability disabled, or an object of the snapshot missing, or
\* a successful handler lookup that finds zero handlers, canUpdateMachine
\* returns (false, nil) and no extension has been invoked.
C2_IneligibleIsNotAnError ==
    (Gate /\ (~featureGate \/ ~Complete(machineUpToDateResult)
              \/ (~getAllExtensionsFails /\ N = 0))) =>
        /\ called = <<>>
        /\ Returned => gateResult = GateReturn(FALSE, NoErr)

\* C2 witness: zero handlers, current and desired specs already agreeing,
\* and canUpdateMachine returned.
C2_Witness ==
    /\ Gate /\ Returned /\ featureGate /\ ~getAllExtensionsFails /\ N = 0
    /\ InputsAgree

\* C3: with the capability enabled, the snapshot complete and the lookup
\* succeeding, two or more registered handlers make canUpdateMachine return
\* (false, error) and no extension is invoked.
C3_MultipleHandlersIsAnError ==
    (Gate /\ featureGate /\ Complete(machineUpToDateResult)
     /\ ~getAllExtensionsFails /\ N >= 2) =>
        /\ called = <<>>
        /\ Returned => (~gateResult.canUpdate /\ gateResult.err # NoErr
                        /\ ~orchResult.returned)

\* C3 witness: canUpdateMachine returned with two handlers registered.
C3_Witness ==
    /\ Gate /\ featureGate /\ Complete(machineUpToDateResult)
    /\ ~getAllExtensionsFails /\ N >= 2 /\ Returned /\ InputsAgree

\* The evaluation is one in which no handler before the last converges and
\* the last handler proposes patches making every current spec equal to the
\* desired one.
LastConverges == profile = "lastConverges"

\* C4, as claimed: with N registered handlers of which the last is the first
\* to converge, canUpdateMachine returns (true, nil) after consulting the N
\* handlers.
C4_Original ==
    (Gate /\ LastConverges /\ Returned) =>
        /\ gateResult = GateReturn(TRUE, NoErr)
        /\ called = extensionHandlers

\* C4, amended: with a list of N handlers of which the last is the first to
\* converge, canExtensionsUpdateMachine returns (true, no reasons, nil) after
\* calling exactly the N handlers in order; canUpdateMachine returns
\* (true, nil) for it when N = 1, and for N > 1 returns (false, error) without
\* calling any handler.
C4_LastHandlerConverges ==
    (LastConverges /\ Returned) =>
        /\ ~Gate => (orchResult = OrchReturn(TRUE, <<>>, NoErr)
                     /\ called = extensionHandlers)
        /\ (Gate /\ N = 1) => (gateResult = GateReturn(TRUE, NoErr)
                               /\ orchResult = OrchReturn(TRUE, <<>>, NoErr)
                               /\ called = extensionHandlers)
        /\ (Gate /\ N > 1) => (~gateResult.canUpdate /\ gateResult.err # NoErr
                               /\ called = <<>>)

\* C4 witness: two handlers were called, the first left the request
\* unconverged, the second converged it.
C4_Witness ==
    /\ LastConverges /\ Returned /\ ~Gate /\ N = 2 /\ idx = 2
    /\ ~SpecsEqual(seen) /\ SpecsEqual(req) /\ orchResult.canUpdate

\* C5: once a convergence check finds all three resources matching, the
\* evaluation has returned (true, no reasons, nil) and the handlers called are
\* exactly those up to that round.
C5_ReturnOnFirstMatch ==
    (lastMatch.checked /\ lastMatch.matches) =>
        /\ Returned
        /\ orchResult = OrchReturn(TRUE, <<>>, NoErr)
        /\ called = SubSeq(extensionHandlers, 1, idx)

\* C5 witness: the check of the first round matched while a second handler
\* was still uncalled.
C5_Witness ==
    /\ lastMatch.checked /\ lastMatch.matches /\ idx = 1 /\ N = 2
    /\ profile = "any"

\* The reasons a fault-free convergence check gives for request r.
ReasonsOf(r) == matchesMachine(r, "none").reasons

\* C6: when every handler was called and no round converged, the evaluation
\* returns (false, reasons, nil) with exactly the reasons of the convergence
\* check of the last round.
C6_ReasonsOfLastRound ==
    (Returned /\ orchResult.returned /\ idx = N /\ N >= 1 /\ fault = "none"
     /\ ~lastMatch.matches) =>
        /\ orchResult = OrchReturn(FALSE, ReasonsOf(req), NoErr)
        /\ orchResult.reasons = lastMatch.reasons
        /\ Len(orchResult.reasons) >= 1

\* C6 witness: two rounds, neither converged, and the reasons of the first
\* round differ from those of the second.
C6_Witness ==
    /\ Returned /\ orchResult.returned /\ idx = 2 /\ N = 2 /\ fault = "none"
    /\ ~lastMatch.matches
    /\ ReasonsOf(seen) # ReasonsOf(req)
    /\ Len(ReasonsOf(seen)) >= 1

\* C7: a failure of the extension call, of a patch or of the comparator in a
\* round ends the evaluation in that round with (false, no reasons, error),
\* and canUpdateMachine returns (false, error).
C7_ErrorAborts ==
    (fault # "none") =>
        /\ Returned
        /\ orchResult.returned /\ ~orchResult.canUpdate
        /\ orchResult.reasons = <<>> /\ orchResult.err # NoErr
        /\ called = SubSeq(extensionHandlers, 1, idx)
        /\ Gate => (gateResult.returned /\ ~gateResult.canUpdate
                    /\ gateResult.err = orchResult.err)

\* C7 witness: a patch failed in the first round while a second handler was
\* still uncalled.
C7_Witness == fault = "patch" /\ idx = 1 /\ N = 2

\* C8: the desired side of the request is what createRequest produced, in
\* every state of the evaluation.
C8_DesiredIsFixed == req.Desired = req0.Desired

\* C8 witness: after two rounds the current side differs from the one
\* createRequest produced.
C8_Witness ==
    /\ idx = 2 /\ req.Current.Machine # req0.Current.Machine
    /\ req.Current.BootstrapConfig # req0.Current.BootstrapConfig
    /\ req.Current.InfrastructureMachine # req0.Current.InfrastructureMachine

\* C9: the request passed to the handler of a round is the request as the
\* previous round's patches left it.
C9_PatchesCarryForward == [][(idx' = idx + 1) => (seen' = req)]_vars

\* C9 witness: the second handler was passed a request whose current side
\* differs from the initial one.
C9_Witness == idx = 2 /\ seen.Current # req0.Current /\ seen # NoReq

\* C10: when the request createRequest produced already has equal specs, a
\* first round with no patch and no fault converges: the evaluation returns
\* (true, no reasons, nil) after exactly one call.
C10_ConvergesOnRoundZero ==
    (idx >= 1 /\ SpecsEqual(req0) /\ ~patched /\ fault = "none") =>
        /\ Returned /\ idx = 1
        /\ orchResult = OrchReturn(TRUE, <<>>, NoErr)
        /\ req = req0

\* C10 witness: such a first round happened with a second handler uncalled
\* and labels differing between the current and desired objects passed in.
C10_Witness ==
    /\ idx = 1 /\ SpecsEqual(req0) /\ ~patched /\ fault = "none"
    /\ N = 2
    /\ machineUpToDateResult.DesiredMachine.labels # machine.labels

\* A JSON patch with an empty operation list, or a JSON merge patch whose
\* payload is empty or "{}".
EmptyPatch(p) ==
    \/ p.PatchType = JSONPatchType /\ p.Patch.form = "[]"
    \/ p.PatchType = JSONMergePatchType /\ p.Patch.form \in {"empty", "{}"}

DirectCall == entry \in {"applyPatchToObject", "applyPatchToMachine"}

\* C11: a direct call with an empty JSON patch operation list, or with an
\* empty or "{}" JSON merge patch, returns changed = false and no error with
\* the target as it was (applyPatchToObject), and returns no error with the
\* Machine as it was (applyPatchToMachine).
C11_EmptyPatchIsNoOp ==
    (DirectCall /\ Returned /\ EmptyPatch(arg.patch)) =>
        /\ entry = "applyPatchToObject" =>
              ret = [objChanged |-> FALSE, err |-> NoErr, obj |-> arg.obj]
        /\ entry = "applyPatchToMachine" =>
              ret = [err |-> NoErr, machine |-> arg.obj]

\* C11 witness: applyPatchToObject returned for a "{}" merge patch.
C11_Witness ==
    /\ entry = "applyPatchToObject" /\ Returned
    /\ arg.patch = Patch(JSONMergePatchType, "{}", <<>>)
    /\ ret.obj = arg.obj

\* The fields of a document other than its spec.
NonSpec(d) ==
    [gvk |-> d.gvk, name |-> d.name, namespace |-> d.namespace, labels |-> d.labels,
     annotations |-> d.annotations]

\* C12: a direct call that applies a non-empty patch with success reports a
\* change and leaves type identity, name, namespace, labels and annotations of
\* the target (of both forms of a RawExtension, and of the Machine) as they
\* were, whatever the payload touched.
C12_OnlySpecChanges ==
    (DirectCall /\ Returned /\ ret.err = NoErr /\ ~EmptyPatch(arg.patch)) =>
        /\ entry = "applyPatchToObject" =>
              /\ ret.objChanged
              /\ NonSpec(ret.obj.Raw) = NonSpec(arg.obj.Raw)
              /\ NonSpec(ret.obj.Object) = NonSpec(arg.obj.Object)
        /\ entry = "applyPatchToMachine" => NonSpec(ret.machine) = NonSpec(arg.obj)

\* C12 witness: a JSON patch replacing the labels and the spec was applied to
\* a Machine, whose spec changed.
C12_Witness ==
    /\ entry = "applyPatchToMachine" /\ Returned /\ ret.err = NoErr
    /\ arg.patch = Patch(JSONPatchType, "doc",
                         <<Op("replace", "labels", "lx"), Op("replace", "spec", "v2")>>)
    /\ arg.obj.spec = "v1" /\ ret.machine.spec = "v2"

\* An operation list that fails on a document with spec s: a test of another
\* value than the one the list has set so far, or a path that does not exist.
RECURSIVE OpsFail(_, _)
OpsFail(ops, s) ==
    IF ops = <<>> THEN FALSE
    ELSE LET o == Head(ops)
         IN  CASE o.op = "test" /\ o.path = "spec" -> o.value # s \/ OpsFail(Tail(ops), s)
               [] o.op = "replace" /\ o.path = "spec" -> OpsFail(Tail(ops), o.value)
               [] o.op = "replace" /\ o.path = "labels" -> OpsFail(Tail(ops), s)
               [] OTHER -> TRUE

\* A patch of a supported type whose application to obj fails: a payload on
\* which the library panics, a JSON patch that does not decode or that has a
\* failing operation, a merge patch that is not JSON or that does not leave
\* an object.
FailingPatch(p, obj) ==
    \/ p.PatchType \in {JSONPatchType, JSONMergePatchType} /\ p.Patch.form = "panic"
    \/ p.PatchType = JSONPatchType /\ p.Patch.form \in {"empty", "{}", "garbage"}
    \/ p.PatchType = JSONPatchType /\ p.Patch.form = "doc" /\ OpsFail(p.Patch.ops, obj.Raw.spec)
    \/ p.PatchType = JSONMergePatchType /\ p.Patch.form \in {"garbage", "[]"}

\* C13: a direct call of applyPatchToObject whose patch application fails
\* returns changed = false with a non-nil error (it returns: a panic of the
\* patch library is not passed on), and every call that returns an error
\* leaves the target exactly as it was.
C13_FailedPatchLeavesTarget ==
    (entry = "applyPatchToObject" /\ Returned) =>
        /\ FailingPatch(arg.patch, arg.obj) => ret.err # NoErr
        /\ ret.err # NoErr => ret = [objChanged |-> FALSE, err |-> ret.err, obj |-> arg.obj]

\* C13 witness: the patch library panicked and applyPatchToObject returned
\* the error made of the panic.
C13_Witness ==
    /\ entry = "applyPatchToObject" /\ Returned
    /\ arg.patch.Patch.form = "panic"
    /\ ret.err = "observed a panic when applying patch"

\* C14: applyPatchToObject called with a patch whose type is unset or is
\* neither JSONPatch nor JSONMergePatch returns (false, error) and leaves the
\* target alone, whatever the payload (also an empty one); and an evaluation
\* whose handler answered with such a patch (a patch with a type or a payload:
\* one with neither is no patch) has returned (false, no reasons, error) in that
\* round, canUpdateMachine returning (false, that error).
C14_UnsupportedFormatIsAnError ==
    /\ (entry = "applyPatchToObject" /\ Returned
        /\ arg.patch.PatchType \notin {JSONPatchType, JSONMergePatchType}) =>
           /\ ret.err # NoErr
           /\ ret = [objChanged |-> FALSE, err |-> ret.err, obj |-> arg.obj]
    /\ badFormat =>
           /\ fault = "patch" /\ Returned
           /\ orchResult =
                  OrchReturn(FALSE, <<>>, "failed to apply patches from extension")
           /\ called = SubSeq(extensionHandlers, 1, idx)
           /\ Gate => gateResult = GateReturn(FALSE, orchResult.err)

\* C14 witness: the first of two handlers answered with a patch of no
\* supported type, and the second handler was not called.
C14_Witness == badFormat /\ idx = 1 /\ N = 2 /\ Returned

\* The resources of request r whose current spec differs from the desired
\* one, in the order Machine, bootstrap config, infrastructure machine.
Mismatches(r) ==
    (IF r.Current.Machine.spec # r.Desired.Machine.spec THEN <<"Machine">> ELSE <<>>)
    \o (IF r.Current.BootstrapConfig.Object.spec # r.Desired.BootstrapConfig.Object.spec
        THEN <<"KubeadmConfig">> ELSE <<>>)
    \o (IF r.Current.InfrastructureMachine.Object.spec
             # r.Desired.InfrastructureMachine.Object.spec
        THEN <<InfraGVK>> ELSE <<>>)

\* The labels and annotations of document d.
Meta(d) == <<d.labels, d.annotations>>

\* C15: whatever labels and annotations the current and desired bootstrap
\* config and infrastructure machine came with, the request carries the
\* desired ones on both sides, and the convergence check of a round depends on
\* the specs alone: it matches when the three specs are equal, and otherwise
\* gives a reason, made of the two specs, for each resource whose spec still
\* differs after the round's patches.
C15_LabelsNeverBlock ==
    (idx >= 1 /\ fault = "none") =>
        /\ lastMatch.checked
        /\ lastMatch.matches = SpecsEqual(req)
        /\ [k \in 1..Len(lastMatch.reasons) |-> lastMatch.reasons[k].resource]
              = Mismatches(req)
        /\ \A k \in 1..Len(lastMatch.reasons) :
              lastMatch.reasons[k].diff \in SpecVals \X SpecVals
        /\ \A side \in {"Raw", "Object"} :
              /\ Meta(req.Current.BootstrapConfig[side])
                    = Meta(req.Desired.BootstrapConfig[side])
              /\ Meta(req.Current.InfrastructureMachine[side])
                    = Meta(req.Desired.InfrastructureMachine[side])
              /\ Meta(req.Desired.BootstrapConfig[side])
                    = Meta(machineUpToDateResult.DesiredKubeadmConfig)
              /\ Meta(req.Desired.InfrastructureMachine[side])
                    = Meta(machineUpToDateResult.DesiredInfraMachine)

\* C15 witness: the labels and annotations of the current and desired
\* bootstrap config and infrastructure machine passed in differ, and a round
\* that applied a patch converged.
C15_Witness ==
    /\ idx >= 1 /\ fault = "none"
    /\ Meta(machineUpToDateResult.CurrentKubeadmConfig)
          # Meta(machineUpToDateResult.DesiredKubeadmConfig)
    /\ Meta(machineUpToDateResult.CurrentInfraMachine)
          # Meta(machineUpToDateResult.DesiredInfraMachine)
    /\ lastMatch.matches /\ patched

\* C16: when a dry-run or a conversion step of createRequest fails, the
\* evaluation has returned (false, no reasons, error) once it has started,
\* canUpdateMachine has returned (false, that error) and not (false, nil), and
\* no extension handler was called.
C16_CreateRequestFailureIsAnError ==
    (createFault # "none" /\ pc # "entry") =>
        /\ Returned
        /\ orchResult =
               OrchReturn(FALSE, <<>>, "failed to generate CanUpdateMachine request")
        /\ called = <<>> /\ idx = 0
        /\ \A k \in 1..Len(trace) : trace[k] # "CallExtension"
        /\ Gate => (gateResult = GateReturn(FALSE, orchResult.err)
                    /\ gateResult.err # NoErr)

\* C16 witness: canUpdateMachine returned after the conversion of the desired
\* InfrastructureMachine failed, with one handler registered.
C16_Witness ==
    /\ Gate /\ Returned /\ createFault = "convDesiredInfrastructureMachine"
    /\ N = 1 /\ gateResult.returned

\* What an evaluation of the objects passed in returns when it runs alone:
\* the loop from handler k on, on request r with reasons rs.
RECURSIVE alone(_, _, _)
alone(r, rs, k) ==
    IF k > Len(extensionHandlers)
    THEN OrchReturn(FALSE, rs, NoErr)
    ELSE LET next(s) == IF s.kind = "next" THEN alone(s.req, s.reasons, k + 1)
                        ELSE loopReturn(s)
         IN  next(loopBody(r, rs, FALSE, Answer(behaviour[k], r), "none"))

RunAlone == alone(createRequest(machine, machineUpToDateResult, "none").req, <<>>, 1)

\* C17: while two evaluations of the same Machine and UpToDateResult run
\* interleaved, the objects passed in stay as they were passed, every object
\* an evaluation writes is one only it holds a pointer to, and an evaluation
\* that has returned has returned what it returns when it runs alone.
C17_InputsAreNotModified ==
    /\ heap[<<0, "Machine">>] = machine
    /\ \A n \in ObjectNames : heap[<<0, n>>] = machineUpToDateResult[n]
    /\ \A e \in Evals :
          /\ ev[e].pc \notin {"start"} => \A n \in PointerNames : ptr[e][n] = <<e, n>>
          /\ ev[e].pc = "returned" => ev[e].result = RunAlone

\* C17 witness: both evaluations have returned, one of them true, after
\* createRequest wrote labels and dry-run results into its copies and the
\* steps of the two were interleaved.
C17_Witness ==
    /\ \A e \in Evals : ev[e].pc = "returned" /\ ev[e].result.canUpdate
    /\ heap[<<1, "CurrentKubeadmConfig">>] # heap[<<0, "CurrentKubeadmConfig">>]
    /\ heap[<<2, "CurrentInfraMachine">>] # heap[<<0, "CurrentInfraMachine">>]
    /\ ev[1].req.Current # requestOf(heap, ptr[1]).Current

\* The three ways canExtensionsUpdateMachine ends.
Converged == orchResult = OrchReturn(TRUE, <<>>, NoErr)
Exhausted ==
    /\ orchResult.returned /\ ~orchResult.canUpdate /\ orchResult.err = NoErr
    /\ idx = N
Error ==
    /\ orchResult.returned /\ ~orchResult.canUpdate /\ orchResult.err # NoErr
    /\ orchResult.reasons = <<>>

\* canExtensionsUpdateMachine is run: called directly, or by canUpdateMachine
\* when its preconditions hold.
OrchestratorRuns ==
    \/ entry = "canExtensionsUpdateMachine"
    \/ /\ Gate /\ featureGate /\ Complete(machineUpToDateResult)
       /\ ~getAllExtensionsFails /\ N = 1

\* The handlers called are the first idx of the list, in its order, each once,
\* one per CallExtension made; and an evaluation that has returned ended in
\* exactly one of Converged, Exhausted and Error.
OrderedRounds ==
    /\ idx <= N
    /\ called = SubSeq(extensionHandlers, 1, idx)
    /\ Cardinality({k \in 1..Len(trace) : trace[k] = "CallExtension"}) = idx
    /\ (OrchestratorRuns /\ Returned) =>
          /\ Converged \/ Exhausted \/ Error
          /\ ~(Converged /\ Exhausted) /\ ~(Converged /\ Error) /\ ~(Exhausted /\ Error)
          /\ Converged => (lastMatch.matches /\ idx >= 1)
          /\ Exhausted => (~lastMatch.matches /\ fault = "none" /\ createFault = "none")
          /\ Error => (fault # "none" \/ createFault # "none")

\* C18: an evaluation over N handlers calls them in list order, each at most
\* once, makes at most N rounds, and, every call returning, comes to return,
\* in exactly one of Converged, Exhausted and Error.
C18_TerminatesInOrder == []OrderedRounds /\ <>Returned

\* C18 witness: three outcomes are reached; here the evaluation of two
\* handlers returned Exhausted after both were called in order.
C18_Witness ==
    /\ Returned /\ Exhausted /\ N = 2 /\ called = <<"h1", "h2">>
    /\ entry = "canExtensionsUpdateMachine"

\* The place of a resource in the order of the comparisons of matchesMachine.
Rank(resource) ==
    CASE resource = "Machine" -> 1
      [] resource = "KubeadmConfig" -> 2
      [] OTHER -> 3

\* The current and the desired spec of the resource of that rank in request r.
SpecPair(r, rank) ==
    CASE rank = 1 -> <<r.Current.Machine.spec, r.Desired.Machine.spec>>
      [] rank = 2 -> <<r.Current.BootstrapConfig.Object.spec,
                       r.Desired.BootstrapConfig.Object.spec>>
      [] OTHER -> <<r.Current.InfrastructureMachine.Object.spec,
                    r.Desired.InfrastructureMachine.Object.spec>>

\* The ranks of the resources the reasons rs are about.
Ranks(rs) == [k \in 1..Len(rs) |-> Rank(rs[k].resource)]

\* C19: a convergence check that returned no error gives reasons in the order
\* Machine, bootstrap config, infrastructure machine, no two about the same
\* resource; each of the three resources has a reason exactly when its spec
\* does not match, whatever the other two do; and the check matches exactly
\* when it gives no reason.
C19_OneReasonPerMismatch ==
    (idx >= 1 /\ fault \in {"none", "compare"} /\ lastMatch.err = NoErr) =>
        /\ lastMatch.checked
        /\ \A j \in 1..Len(lastMatch.reasons) : \A k \in 1..Len(lastMatch.reasons) :
              j < k => Ranks(lastMatch.reasons)[j] < Ranks(lastMatch.reasons)[k]
        /\ \A rank \in 1..3 :
              (SpecPair(req, rank)[1] # SpecPair(req, rank)[2])
                 <=> (\E k \in 1..Len(lastMatch.reasons) :
                         Ranks(lastMatch.reasons)[k] = rank)
        /\ lastMatch.matches <=> (lastMatch.reasons = <<>>)

\* C19 witness: a check found the Machine and the infrastructure machine not
\* matching and the bootstrap config matching, and gave the two reasons.
C19_Witness ==
    /\ idx >= 1 /\ fault = "none" /\ lastMatch.checked
    /\ Ranks(lastMatch.reasons) = <<1, 3>>
    /\ SpecPair(req, 2)[1] = SpecPair(req, 2)[2]

\* The number of calls of collaborator c made so far.
Calls(c) == Cardinality({k \in 1..Len(trace) : trace[k] = c})

\* The first precondition of canUpdateMachine that does not hold, in the
\* order of the claim; "none" when all hold.
FirstUnmet ==
    IF ~featureGate THEN "capability"
    ELSE IF ~Complete(machineUpToDateResult) THEN "snapshot"
    ELSE IF getAllExtensionsFails THEN "lookup"
    ELSE IF N # 1 THEN "count"
    ELSE "none"

\* C20: canUpdateMachine returns by the first of its preconditions that does
\* not hold, taken in the order capability, snapshot completeness, handler
\* lookup, handler count, whatever the later ones are; GetAllExtensions is
\* called once, and first, when capability and snapshot hold and not at all
\* otherwise; and no request is built, no dry-run and no extension call made,
\* unless all preconditions hold.
C20_PreconditionsInOrder ==
    (Gate /\ Returned) =>
        /\ FirstUnmet \in {"capability", "snapshot"} =>
              gateResult = GateReturn(FALSE, NoErr) /\ trace = <<>>
        /\ FirstUnmet = "lookup" =>
              /\ gateResult.err # NoErr /\ ~gateResult.canUpdate
              /\ trace = <<"GetAllExtensions">>
        /\ FirstUnmet = "count" =>
              /\ gateResult = GateReturn(FALSE, IF N = 0 THEN NoErr
                                                ELSE "found multiple CanUpdateMachine hooks")
              /\ trace = <<"GetAllExtensions">>
        /\ FirstUnmet = "none" =>
              /\ trace[1] = "GetAllExtensions" /\ Calls("GetAllExtensions") = 1
              /\ Calls("ssa.Patch") = dryRunCalls(createFault)
        /\ FirstUnmet # "none" =>
              /\ req = NoReq /\ req0 = NoReq /\ called = <<>>
              /\ Calls("ssa.Patch") = 0 /\ Calls("CallExtension") = 0
              /\ ~orchResult.returned

\* C20 witness: canUpdateMachine returned with the feature gate disabled while
\* the snapshot was incomplete, the lookup would have failed and two handlers
\* were registered.
C20_Witness ==
    /\ Gate /\ Returned
    /\ ~featureGate /\ ~Complete(machineUpToDateResult) /\ getAllExtensionsFails /\ N = 2

\* canExtensionsUpdateMachine was called with an empty handler list and has
\* returned.
ReturnedWithoutHandlers ==
    entry = "canExtensionsUpdateMachine" /\ N = 0 /\ Returned

\* C21 as stated: with an empty handler list canExtensionsUpdateMachine makes
\* no convergence check and returns (false, no reasons, nil).  It does not
\* when createRequest fails: then the return carries the error.
C21_Original ==
    ReturnedWithoutHandlers =>
        /\ ~lastMatch.checked
        /\ orchResult = OrchReturn(FALSE, <<>>, NoErr)

\* C21: with an empty handler list canExtensionsUpdateMachine makes no
\* extension call and no convergence check; when createRequest succeeds it
\* returns (false, no reasons, nil), also when the current and desired specs
\* of the request are equal, and when createRequest fails it returns the
\* error.  A true result comes only after an extension call that returned,
\* whose patches applied and whose convergence check matched.
C21_NoHandlersNoUpdate ==
    /\ ReturnedWithoutHandlers =>
          /\ ~lastMatch.checked /\ idx = 0
          /\ Calls("CallExtension") = 0
          /\ createFault = "none" => orchResult = OrchReturn(FALSE, <<>>, NoErr)
          /\ createFault # "none" =>
                /\ orchResult.err # NoErr /\ ~orchResult.canUpdate
                /\ orchResult.reasons = <<>>
    /\ (orchResult.returned /\ orchResult.canUpdate) =>
          /\ N >= 1 /\ idx >= 1 /\ Calls("CallExtension") = idx
          /\ fault = "none" /\ lastMatch.checked /\ lastMatch.matches

\* C21 witness: called with no handler, createRequest built a request whose
\* current and desired specs are equal, and the return is (false, no reasons,
\* nil).
C21_Witness ==
    /\ ReturnedWithoutHandlers /\ createFault = "none"
    /\ req # NoReq /\ SpecsEqual(req)
    /\ orchResult = OrchReturn(FALSE, <<>>, NoErr)

=============================================================================
